---- MODULE Spec2Model ----
(***************************************************************************)
(* QuickNotes: picture-password authentication, universal lockout and      *)
(* server-held sessions.                                                   *)
(*                                                                         *)
(* The server is the Supabase database (supabase-setup.sql): the rows      *)
(* universal_lockout, app_password, active_session and notes, and the      *)
(* plpgsql functions.  The clients are browser pages running the React     *)
(* hooks useLockout, usePassword, useAuth, useNotes and the component      *)
(* PicturePasswordAuth.  Every await of a client is one step of the model: *)
(* the server executes the request, the client handles the response and    *)
(* issues its next request.  A plpgsql function runs in READ COMMITTED:    *)
(* each of its statements sees the rows as committed when the statement    *)
(* starts, so a SELECT followed by an UPDATE of the same row is two steps. *)
(*                                                                         *)
(* Time is counted in hours.  NOW() of a plpgsql function is the start     *)
(* time of its transaction.                                                *)
(***************************************************************************)
EXTENDS Integers, Sequences, FiniteSets, TLC

\* ------------------------------------------------------------------ bounds
MaxDay == 1
MaxTokens == 2
MaxNotes == 1
MaxPasswordLength == 6
MaxEvents == 1

\* ------------------------------------------------------- program constants
MAX_ATTEMPTS == 3
LOCKOUT_DURATION == 1
SESSION_DURATION == 24
NUM_IMAGES == 12
MIN_PASSWORD_LENGTH == 3
MAX_PASSWORD_LENGTH == 5

Clients == {"c1", "c2"}
NULL == -1
NoToken == 0
Tokens == 1..MaxTokens

\* The clock is read at the start of a day (a session duration) and one lockout
\* duration later: the instants at which a lockout or a session made at such an
\* instant runs out.
TimePoints ==
  {d * SESSION_DURATION + h : d \in 0..MaxDay, h \in {0, LOCKOUT_DURATION}}

\* The credential the database holds when the login specification starts.
InitialPassword == <<1, 2, 3>>

VARIABLES
  now,               \* wall clock, hours
  lockout,           \* the universal_lockout row (id = 1)
  app_password,      \* the app_password row: its password_sequence, <<>> when no row
  active_session,    \* the active_session table: set of rows
  notes,             \* the notes table: set of note ids
  nextToken,         \* number of tokens generateSessionToken has drawn
  noteSeq,           \* number of ids the notes table has generated
  cl,                \* per client: the page's state (fields below)
  statusResult,      \* the last answer of the rpc check_lockout_status
  failStreak,        \* history: failed logins recorded since the last reset write
  lastReset,         \* history: who wrote the last reset, and the count it overwrote
  issued,            \* history: expires_at each token was created with (NULL: never)
  keepAttempts       \* whether the pages keep useLockout's failedAttempts, which only
                     \* the error path of recordFailedAttempt reads

vars == <<now, lockout, app_password, active_session, notes, nextToken, noteSeq, cl,
          statusResult,
          failStreak, lastReset, issued, keepAttempts>>

\* ------------------------------------------------------------ pure helpers

\* Array.prototype.includes
Includes(seq, x) == \E i \in 1..Len(seq) : seq[i] = x

\* A comparison that forgets the order of the images.
SqlArrayEq_AnyOrder(a, b) ==
  Len(a) = Len(b) /\ {a[i] : i \in 1..Len(a)} = {b[i] : i \in 1..Len(b)}

\* PostgreSQL array equality: same length, equal element by element, in order.
SqlArrayEq(a, b) == Len(a) = Len(b) /\ \A i \in 1..Len(a) : a[i] = b[i]

\* The comparison with NOW() turned around.
AlreadyLocked_Inverted(rec, t) == rec.lockout_until # NULL /\ rec.lockout_until < t

\* record_failed_attempt: "Check if already locked and lockout hasn't expired"
AlreadyLocked(rec, t) == rec.lockout_until # NULL /\ rec.lockout_until > t

\* A status that never looks at the clock.
StillLocked_NoExpiry(rec, t) == rec.lockout_until # NULL

\* check_lockout_status: "Still locked"
StillLocked(rec, t) == rec.lockout_until # NULL /\ rec.lockout_until > t

\* validate_password_with_lockout: "Account is locked"
AccountLocked(rec, t) == rec.lockout_until # NULL /\ rec.lockout_until > t

\* A status check for which a lock never ends.
LockoutInFuture_Always(rec, t) == rec.lockout_until # NULL

\* useLockout.checkLockoutStatus: "lockoutUntil && lockoutUntil > now"
LockoutInFuture(rec, t) == rec.lockout_until # NULL /\ rec.lockout_until > t

\* A threshold that is one attempt late.
ShouldLock_OneLate(new_attempts) == new_attempts > MAX_ATTEMPTS

\* record_failed_attempt: "should_lock := new_attempts >= 3"
ShouldLock(new_attempts) == new_attempts >= MAX_ATTEMPTS

\* A lock that lasts two lockout durations.
LockoutTime_TwoDurations(new_attempts, t) ==
  IF new_attempts >= MAX_ATTEMPTS THEN t + 2 * LOCKOUT_DURATION ELSE NULL

\* record_failed_attempt: "lockout_time := NOW() + INTERVAL '1 hour'" or NULL
LockoutTime(new_attempts, t) ==
  IF ShouldLock(new_attempts) THEN t + LOCKOUT_DURATION ELSE NULL

\* A reset that lifts the lock and keeps the count.
ResetRow_KeepsCount(rec, t) == [rec EXCEPT !.lockout_until = NULL]

\* A reset that clears the count and keeps the deadline.
ResetRow_KeepsDeadline(rec, t) == [rec EXCEPT !.failed_attempts = 0]

\* resetLockout: the UPDATE of useLockout.js
ResetRow(rec, t) ==
  [rec EXCEPT !.failed_attempts = 0, !.lockout_until = NULL]

\* validate_password_with_lockout(sequence)
SqlValidatePassword(rec, pw, sequence, t) ==
  IF AccountLocked(rec, t)
    THEN [is_valid |-> FALSE, is_locked |-> TRUE, error_message |-> "Account is locked. Please wait."]
  ELSE IF pw = <<>>
    THEN [is_valid |-> FALSE, is_locked |-> FALSE, error_message |-> "Password not set"]
  ELSE IF SqlArrayEq(pw, sequence)
    THEN [is_valid |-> TRUE, is_locked |-> FALSE, error_message |-> "none"]
  ELSE [is_valid |-> FALSE, is_locked |-> FALSE, error_message |-> "Invalid password"]

\* usePassword.validatePassword: what the hook returns for the row of the rpc
ValidatePasswordResult(r) ==
  IF r.is_locked
    THEN [valid |-> FALSE, isLocked |-> TRUE]
    ELSE [valid |-> r.is_valid, isLocked |-> FALSE]

\* check_lockout_status()
SqlCheckLockoutStatus(rec, t) ==
  IF StillLocked(rec, t)
    THEN [is_locked |-> TRUE, lockout_until |-> rec.lockout_until,
          failed_attempts |-> rec.failed_attempts]
    ELSE [is_locked |-> FALSE, lockout_until |-> NULL,
          failed_attempts |-> rec.failed_attempts]

\* A session check that forgets the expiry.
SqlValidSession_AnyRow(sessions, token, t) ==
  \E s \in sessions : s.session_token = token

\* A session that is still accepted at the instant it expires.
SqlValidSession_Inclusive(sessions, token, t) ==
  \E s \in sessions : s.session_token = token /\ s.expires_at >= t

\* "WHERE session_token = token AND expires_at > NOW()" of is_valid_session_token
\* and of get_notes, create_note, update_note, delete_note
SqlValidSession(sessions, token, t) ==
  \E s \in sessions : s.session_token = token /\ s.expires_at > t

\* A cleanup that deletes the live sessions and keeps the expired ones.
CleanupExpired_Inverted(sessions, t) == {s \in sessions : ~(s.expires_at > t)}

\* cleanup_expired_sessions(): the rows it leaves
CleanupExpired(sessions, t) == {s \in sessions : ~(s.expires_at < t)}

\* A check that takes every row for expired.
SessionRowValid_Never(row, t) == FALSE

\* A check for which no session ever expires.
SessionRowValid_Always(row, t) == TRUE

\* checkAuthStatus: "expiresAt > now" on the row the select returned
SessionRowValid(row, t) == row.expires_at > t

SessionRows(token) == {s \in active_session : s.session_token = token}

\* useNotes validateSession: "expiresAt <= new Date()" throws 'Session expired'
SessionRowExpired(row, t) == row.expires_at <= t


\* ------------------------------------------------------------ client state

NoValidation == [valid |-> FALSE, isLocked |-> FALSE, at |-> NULL]
NoRecord == [failed_attempts |-> 0, lockout_until |-> NULL, at |-> NULL]
NoLockoutResult == [failedAttempts |-> 0, isLocked |-> FALSE, lockoutUntil |-> NULL]
NoStatus ==
  [is_locked |-> FALSE, lockout_until |-> NULL, failed_attempts |-> 0, at |-> NULL]
NoReset == [by |-> "none", from |-> 0]
NoAuthResult == [token |-> NoToken, ok |-> FALSE, at |-> NULL, by |-> "none"]
NoFetch == [at |-> NULL, ok |-> FALSE, data |-> {}, mounted |-> FALSE]

\* A page right after it is loaded: the useState initial values.
FreshPage(token) ==
  [pc |-> "idle",
   step |-> "check",
   passwordSequence |-> <<>>,
   selectedSequence |-> <<>>,
   newPassword |-> <<>>,
   confirmPassword |-> <<>>,
   validation |-> NoValidation,
   current_record |-> NoRecord,
   lockoutResult |-> NoLockoutResult,
   isLocked |-> FALSE,
   failedAttempts |-> 0,
   remaining |-> {},
   sessionToken |-> token,
   newToken |-> NoToken,
   existing |-> FALSE,
   isAuthenticated |-> FALSE,
   authResult |-> NoAuthResult,
   notesList |-> {},
   repeated |-> {},
   setup |-> "off",
   fetched |-> NoFetch,
   channel |-> FALSE,
   events |-> <<>>,
   thrown |-> "",
   error |-> ""]

\* The page fields of useNotes: notesList holds the rows of the list and
\* repeated the ids the list holds more than once; setup is the position of
\* setupNotes ("off": no authenticated effect is mounted); fetched is the
\* answer of get_notes on its way to the page, with the mounted flag of the
\* effect that asked; channel tells whether the effect's channel is subscribed;
\* events are the change events delivered to the channel and not yet handled.

\* useNotes effect, isAuthenticated true: mounted = true and setupNotes() starts
\* with its await of validateSession()
EffectStart(page) == [page EXCEPT !.setup = "validate"]

\* useNotes effect when isAuthenticated turns false: the cleanup of the earlier
\* effect (mounted = false, removeChannel) and the unauthenticated branch
\* (setNotes([])); a request in flight is not cancelled
EffectCleanup(page) ==
  [page EXCEPT !.setup = "off",
               !.channel = FALSE,
               !.events = <<>>,
               !.fetched = [@ EXCEPT !.mounted = FALSE],
               !.notesList = {},
               !.repeated = {}]

\* ------------------------------------------------------------- user input

PASSWORD_IMAGES == 1..NUM_IMAGES

\* The guesses a user of the login screen types: the stored sequence, and the
\* stored sequence with its first two images exchanged.
SwapFirstTwo(s) ==
  [i \in 1..Len(s) |-> IF i = 1 THEN s[2] ELSE IF i = 2 THEN s[1] ELSE s[i]]

LoginGuesses(pw) == IF Len(pw) < 2 THEN {pw} ELSE {pw, SwapFirstTwo(pw)}

IsPrefix(p, s) == Len(p) <= Len(s) /\ \A i \in 1..Len(p) : p[i] = s[i]

LoginClicks(c) ==
  {i \in PASSWORD_IMAGES :
     \/ Includes(cl[c].selectedSequence, i)
     \/ \E g \in LoginGuesses(cl[c].passwordSequence) :
          IsPrefix(Append(cl[c].selectedSequence, i), g)}

\* ----------------------------------------------------------------- Init

\* "INSERT INTO universal_lockout (id, failed_attempts) VALUES (1, 0)": no deadline
InitialLockout == [failed_attempts |-> 0, lockout_until |-> NULL, last_attempt_at |-> 0]

LoadedPage == [FreshPage(NoToken) EXCEPT !.passwordSequence = InitialPassword]

Init ==
  /\ now = 0
  /\ lockout = InitialLockout
  /\ app_password = InitialPassword
  /\ active_session = {}
  /\ notes = {}
  /\ nextToken = 0
  /\ noteSeq = 0
  /\ cl = [c \in Clients |-> LoadedPage]
  /\ statusResult = NoStatus
  /\ failStreak = 0
  /\ lastReset = NoReset
  /\ issued = [t \in Tokens |-> NULL]
  /\ keepAttempts = FALSE

\* ------------------------------------------------------------------ clock

Tick ==
  /\ \E t \in TimePoints : t > now /\ now' = t
  /\ UNCHANGED <<lockout, app_password, active_session, notes, nextToken, noteSeq, cl,
                 statusResult, failStreak, lastReset, issued, keepAttempts>>

\* ------------------------------------------------------------- login flow

\* useLockout: setFailedAttempts(n), in the specifications that keep the value
SetFailedAttempts(n) == IF keepAttempts THEN n ELSE 0

\* handleImageClick, login branch: one click on an image of the grid.
LoginClick(c) ==
  /\ cl[c].pc = "idle"
  /\ cl[c].step = "check"
  /\ ~cl[c].isLocked
  /\ \E imageId \in LoginClicks(c) :
       IF Includes(cl[c].selectedSequence, imageId)
         THEN cl' = [cl EXCEPT ![c].error = "Image already selected",
                               ![c].remaining = {}]
         ELSE LET updated == Append(cl[c].selectedSequence, imageId) IN
              cl' = [cl EXCEPT ![c].error = "",
                               ![c].remaining = {},
                               ![c].selectedSequence = updated,
                               ![c].pc =
                                 IF cl[c].passwordSequence # <<>>
                                    /\ Len(updated) = Len(cl[c].passwordSequence)
                                   THEN "validate" ELSE "idle"]
  /\ UNCHANGED <<now, lockout, app_password, active_session, notes, nextToken, noteSeq,
                 statusResult, failStreak, lastReset, issued, keepAttempts>>

\* A handler that goes on to the session whatever the validation answered.
AfterValidation_AlwaysGrant(valid) == "reset"

\* handleImageClick: "if (validation.valid) { await resetLockout() ... } else
\* { ... await recordFailedAttempt() ... }"
AfterValidation(valid) == IF valid THEN "reset" ELSE "record"

\* await validatePassword(updated): the rpc validate_password_with_lockout
ValidatePassword(c) ==
  /\ cl[c].pc = "validate"
  /\ LET r == SqlValidatePassword(lockout, app_password, cl[c].selectedSequence, now)
         v == ValidatePasswordResult(r)
     IN cl' = [cl EXCEPT ![c].validation = [valid |-> v.valid, isLocked |-> v.isLocked,
                                            at |-> now],
                         ![c].pc = AfterValidation(v.valid)]
  /\ UNCHANGED <<now, lockout, app_password, active_session, notes, nextToken, noteSeq,
                 statusResult, failStreak, lastReset, issued, keepAttempts>>

\* validatePassword: the rpc answers with an error, or throws: "return { valid:
\* false, error: ... }", which the handler takes as a failed attempt
ValidatePasswordError(c) ==
  /\ cl[c].pc = "validate"
  /\ cl' = [cl EXCEPT ![c].validation = [valid |-> FALSE, isLocked |-> FALSE, at |-> now],
                      ![c].pc = AfterValidation(FALSE)]
  /\ UNCHANGED <<now, lockout, app_password, active_session, notes, nextToken, noteSeq,
                 statusResult, failStreak, lastReset, issued, keepAttempts>>

\* await resetLockout() after a valid validation or a saved password
ResetLockout(c) ==
  /\ cl[c].pc = "reset"
  /\ lockout' = ResetRow(lockout, now)
  /\ failStreak' = 0
  /\ lastReset' = [by |-> c, from |-> lockout.failed_attempts]
  /\ cl' = [cl EXCEPT ![c].isLocked = FALSE,
                      ![c].failedAttempts = SetFailedAttempts(0),
                      ![c].pc = "create"]
  /\ UNCHANGED <<now, app_password, active_session, notes, nextToken, noteSeq, statusResult, issued, keepAttempts>>

\* The locals of a handleImageClick call are gone when the call ends.
HandlerDone(page) ==
  [page EXCEPT !.validation = NoValidation,
               !.current_record = NoRecord,
               !.lockoutResult = NoLockoutResult,
               !.newToken = NoToken,
               !.existing = FALSE,
               !.pc = "idle"]

\* An insert that does not enforce the UNIQUE constraint.
UniqueToken_NotEnforced(sessions, token) == TRUE

\* "session_token TEXT UNIQUE NOT NULL": the insert of a token is accepted
UniqueToken(sessions, token) == \A s \in sessions : s.session_token # token

\* generateSessionToken: 32 random bytes; the draw is a token never drawn before
\* or, by collision, the token of a row of the store.
TokenDraws ==
  {t \in Tokens : t = nextToken + 1} \cup {s.session_token : s \in active_session}

\* createSession: generateSessionToken and the insert into active_session; an
\* insert the table refuses makes createSession return success: false
CreateSession(c) ==
  /\ cl[c].pc = "create"
  /\ \E token \in TokenDraws :
       LET expiresAt == now + SESSION_DURATION IN
       IF UniqueToken(active_session, token)
         THEN /\ nextToken' = IF token = nextToken + 1 THEN token ELSE nextToken
              /\ active_session' = active_session \cup
                   {[session_token |-> token, expires_at |-> expiresAt]}
              /\ issued' = [issued EXCEPT ![token] = expiresAt]
              /\ cl' = [cl EXCEPT ![c].newToken = token, ![c].pc = "cleanup"]
         ELSE /\ UNCHANGED <<nextToken, active_session, issued>>
              /\ cl' = [cl EXCEPT ![c] =
                          [HandlerDone(@) EXCEPT !.error = "Failed to create session",
                                                 !.remaining = {}]]
  /\ UNCHANGED <<now, lockout, app_password, notes, noteSeq, statusResult, failStreak,
                 lastReset, keepAttempts>>

\* createSession: the rpc cleanup_expired_sessions, then the token is stored
CleanupSessions(c) ==
  /\ cl[c].pc = "cleanup"
  /\ active_session' = CleanupExpired(active_session, now)
  /\ cl' = [cl EXCEPT ![c] = [EffectStart(@) EXCEPT !.sessionToken = cl[c].newToken,
                                                    !.isAuthenticated = TRUE,
                                                    !.pc = "granted"]]
  /\ UNCHANGED <<now, lockout, app_password, notes, nextToken, noteSeq, statusResult, failStreak, lastReset, issued, keepAttempts>>

\* useLockout.recordFailedAttempt: what the hook makes of the rpc's row
RecordResult(failed_attempts, is_locked, lockout_until) ==
  [failedAttempts |-> failed_attempts, isLocked |-> is_locked, lockoutUntil |-> lockout_until]

\* A count of remaining attempts that takes every failure twice.
Remaining_Doubled(currentAttempts) == MAX_ATTEMPTS - 2 * currentAttempts

\* "const remaining = MAX_ATTEMPTS - currentAttempts"
Remaining(currentAttempts) == MAX_ATTEMPTS - currentAttempts

\* handleImageClick after recordFailedAttempt returned lockoutResult; the hook
\* has set its failedAttempts and isLocked to what it returns
AfterFailedAttempt(page, res) ==
  IF ~res.isLocked
    THEN [HandlerDone(page) EXCEPT !.isLocked = FALSE,
                                   !.failedAttempts = SetFailedAttempts(res.failedAttempts),
                                   !.error = "Incorrect password",
                                   !.remaining = {Remaining(res.failedAttempts)},
                                   !.selectedSequence = <<>>]
    ELSE
  [page EXCEPT !.lockoutResult = res,
               !.isLocked = (res.isLocked /\ res.lockoutUntil # NULL),
               !.failedAttempts = SetFailedAttempts(res.failedAttempts),
               !.error = "Too many failed attempts",
               !.remaining = {},
               !.pc = "checkLockout"]

Min(a, b) == IF a < b THEN a ELSE b

\* record_failed_attempt(): SELECT the row; when it is locked, return it.
RecordFailedSelect(c) ==
  /\ cl[c].pc = "record"
  /\ IF AlreadyLocked(lockout, now)
       THEN /\ cl' = [cl EXCEPT ![c] =
                        AfterFailedAttempt(@, RecordResult(lockout.failed_attempts, TRUE,
                                                           lockout.lockout_until))]
            /\ failStreak' = Min(failStreak + 1, MAX_ATTEMPTS)
       ELSE /\ cl' = [cl EXCEPT ![c].current_record =
                        [failed_attempts |-> lockout.failed_attempts,
                         lockout_until |-> lockout.lockout_until, at |-> now],
                                ![c].pc = "recordUpdate"]
            /\ UNCHANGED failStreak
  /\ UNCHANGED <<now, lockout, app_password, active_session, notes, nextToken, noteSeq, statusResult,
                 lastReset, issued, keepAttempts>>

\* record_failed_attempt(): count, decide the lock, UPDATE the row, return.
RecordFailedUpdate(c) ==
  /\ cl[c].pc = "recordUpdate"
  /\ LET t == cl[c].current_record.at
         new_attempts == cl[c].current_record.failed_attempts + 1
         should_lock == ShouldLock(new_attempts)
         lockout_time == LockoutTime(new_attempts, t)
     IN /\ lockout' = [failed_attempts |-> new_attempts,
                       lockout_until |-> lockout_time,
                       last_attempt_at |-> t]
        /\ cl' = [cl EXCEPT ![c] =
                    AfterFailedAttempt(@, RecordResult(new_attempts, should_lock, lockout_time))]
  /\ failStreak' = Min(failStreak + 1, MAX_ATTEMPTS)
  /\ UNCHANGED <<now, app_password, active_session, notes, nextToken, noteSeq, statusResult,
                 lastReset, issued, keepAttempts>>

\* recordFailedAttempt, catch: the rpc fails and the hook returns its own
\* failedAttempts and isLocked, with lockoutUntil: null
RecordFailedError(c) ==
  /\ cl[c].pc = "record"
  /\ keepAttempts
  /\ cl' = [cl EXCEPT ![c] =
       AfterFailedAttempt(@, RecordResult(cl[c].failedAttempts, cl[c].isLocked, NULL))]
  /\ UNCHANGED <<now, lockout, app_password, active_session, notes, nextToken, noteSeq,
                 statusResult, failStreak, lastReset, issued, keepAttempts>>

\* checkLockoutStatus: the select of the universal_lockout row and its branches
CheckLockoutStatus(c) ==
  /\ cl[c].pc = "checkLockout"
  /\ cl' = [cl EXCEPT ![c] =
       IF LockoutInFuture(lockout, now)
         THEN [HandlerDone(@) EXCEPT !.isLocked = TRUE,
                                     !.failedAttempts = SetFailedAttempts(lockout.failed_attempts),
                                     !.selectedSequence = <<>>]
       ELSE IF lockout.lockout_until # NULL
         THEN [@ EXCEPT !.pc = "expiredReset"]
       ELSE [HandlerDone(@) EXCEPT !.isLocked = FALSE,
                                   !.failedAttempts = SetFailedAttempts(lockout.failed_attempts),
                                   !.selectedSequence = <<>>]]
  /\ UNCHANGED <<now, lockout, app_password, active_session, notes, nextToken, noteSeq,
                 statusResult, failStreak, lastReset, issued, keepAttempts>>

\* checkLockoutStatus: "Lockout expired, reset it": await resetLockout()
ExpiredReset(c) ==
  /\ cl[c].pc = "expiredReset"
  /\ lockout' = ResetRow(lockout, now)
  /\ failStreak' = 0
  /\ lastReset' = [by |-> c, from |-> lockout.failed_attempts]
  /\ cl' = [cl EXCEPT ![c] =
       [HandlerDone(@) EXCEPT !.isLocked = FALSE, !.failedAttempts = SetFailedAttempts(0),
                              !.selectedSequence = <<>>]]
  /\ UNCHANGED <<now, app_password, active_session, notes, nextToken, noteSeq, statusResult, issued, keepAttempts>>

\* The countdown of a locked page reaches 0: checkLockoutStatus()
TimerExpired(c) ==
  /\ cl[c].pc = "idle"
  /\ cl[c].isLocked
  /\ cl' = [cl EXCEPT ![c].pc = "checkLockout"]
  /\ UNCHANGED <<now, lockout, app_password, active_session, notes, nextToken, noteSeq,
                 statusResult, failStreak, lastReset, issued, keepAttempts>>

\* The rpc check_lockout_status(), which the database grants to every caller.
StatusQuery ==
  /\ LET r == SqlCheckLockoutStatus(lockout, now)
     IN statusResult' = [is_locked |-> r.is_locked, lockout_until |-> r.lockout_until,
                         failed_attempts |-> r.failed_attempts, at |-> now]
  /\ UNCHANGED <<now, lockout, app_password, active_session, notes, nextToken, noteSeq, cl,
                 failStreak, lastReset, issued, keepAttempts>>

\* ---------------------------------------------------- sessions and notes

\* window.location.reload(): every useState starts again, localStorage stays,
\* and useAuth's initAuth checks the stored token.
ReloadedPage(token) ==
  [FreshPage(token) EXCEPT !.pc = IF token # NoToken THEN "checkAuth" ELSE "checkPassword"]

\* setTimeout(() => window.location.reload(), 1000) after 'Access granted!'
Reload(c) ==
  /\ cl[c].pc = "granted"
  /\ cl' = [cl EXCEPT ![c] = ReloadedPage(cl[c].sessionToken)]
  /\ UNCHANGED <<now, lockout, app_password, active_session, notes, nextToken, noteSeq,
                 statusResult, failStreak, lastReset, issued, keepAttempts>>

\* useAuth: the periodic session check of an authenticated page
PeriodicCheck(c) ==
  /\ cl[c].pc = "notes"
  /\ cl[c].sessionToken # NoToken
  /\ cl' = [cl EXCEPT ![c].pc = "checkAuth"]
  /\ UNCHANGED <<now, lockout, app_password, active_session, notes, nextToken, noteSeq,
                 statusResult, failStreak, lastReset, issued, keepAttempts>>

\* checkAuthStatus(token): the select of the session row and its branches
CheckAuthStatus(c) ==
  /\ cl[c].pc = "checkAuth"
  /\ LET token == cl[c].sessionToken
         rows == SessionRows(token)
     IN cl' = [cl EXCEPT ![c] =
          IF rows = {}
            THEN [EffectCleanup(@) EXCEPT
                           !.sessionToken = NoToken,
                           !.isAuthenticated = FALSE,
                           !.authResult = [token |-> token, ok |-> FALSE, at |-> now,
                                           by |-> "checkAuthStatus"],
                           !.thrown = "",
                           !.pc = "checkPassword"]
          ELSE IF \E row \in rows : SessionRowValid(row, now)
            THEN [(IF @.isAuthenticated THEN @ ELSE EffectStart(@)) EXCEPT
                           !.isAuthenticated = TRUE,
                           !.authResult = [token |-> token, ok |-> TRUE, at |-> now,
                                           by |-> "checkAuthStatus"],
                           !.thrown = "",
                           !.pc = "notes"]
          ELSE [@ EXCEPT !.authResult = [token |-> token, ok |-> FALSE, at |-> now,
                                         by |-> "checkAuthStatus"],
                         !.thrown = "",
                         !.pc = "invalidate"]]
  /\ UNCHANGED <<now, lockout, app_password, active_session, notes, nextToken, noteSeq,
                 statusResult, failStreak, lastReset, issued, keepAttempts>>

\* checkAuthStatus, "Session expired": await invalidateSession(token)
InvalidateSession(c) ==
  /\ cl[c].pc = "invalidate"
  /\ active_session' = active_session \ SessionRows(cl[c].sessionToken)
  /\ cl' = [cl EXCEPT ![c] = [EffectCleanup(@) EXCEPT !.sessionToken = NoToken,
                                                      !.isAuthenticated = FALSE,
                                                      !.pc = "checkPassword"]]
  /\ UNCHANGED <<now, lockout, app_password, notes, nextToken, noteSeq, statusResult, failStreak, lastReset, issued, keepAttempts>>

\* A revocation that deletes nothing.
RevokeRows_Nothing(sessions, token) == sessions

\* invalidateSession: "delete().eq('session_token', token)"
RevokeRows(sessions, token) == {s \in sessions : s.session_token # token}

\* Every token that has been issued, and no token for a call without argument
LogoutArgs == {NoToken} \cup {t \in Tokens : issued[t] # NULL}

\* invalidateSession(token) called on its own (the hook exports it as the
\* logout): without argument it takes the stored token; it deletes the rows of
\* the token, removes the stored token and clears the hook's state; App then
\* shows PicturePasswordAuth in place of the notes.
Logout(c) ==
  /\ cl[c].pc = "notes"
  /\ \E arg \in LogoutArgs :
       LET token == IF arg = NoToken THEN cl[c].sessionToken ELSE arg IN
       /\ active_session' = IF token # NoToken THEN RevokeRows(active_session, token)
                                               ELSE active_session
       /\ cl' = [cl EXCEPT ![c] =
                 [EffectCleanup(@) EXCEPT
                    !.sessionToken = NoToken,
                    !.isAuthenticated = FALSE,
                    !.authResult = [token |-> token, ok |-> FALSE, at |-> now,
                                    by |-> "invalidateSession"],
                    !.pc = "checkPassword"]]
  /\ UNCHANGED <<now, lockout, app_password, notes, nextToken, noteSeq, statusResult, failStreak,
                 lastReset, issued, keepAttempts>>

\* checkPasswordExists after its select: an error other than "no rows" (or an
\* exception) returns false and leaves passwordExists as useState made it; a row
\* with a non-empty sequence sets passwordExists; the effect of
\* PicturePasswordAuth then chooses the step once loading is false.
PasswordChecked(page, error, password_sequence) ==
  IF error
    THEN [page EXCEPT !.step = "set", !.pc = "checkLockout"]
  ELSE IF Len(password_sequence) > 0
    THEN [page EXCEPT !.passwordSequence = password_sequence,
                      !.step = "check", !.pc = "checkLockout"]
  ELSE [page EXCEPT !.passwordSequence = <<>>, !.step = "set", !.pc = "checkLockout"]

\* usePassword.checkPasswordExists, run when PicturePasswordAuth is mounted,
\* and the effect that chooses the 'set' or the 'check' step from its answer
CheckPasswordExists(c) ==
  /\ cl[c].pc = "checkPassword"
  /\ \E error \in BOOLEAN :
       cl' = [cl EXCEPT ![c] = PasswordChecked(@, error, app_password)]
  /\ UNCHANGED <<now, lockout, app_password, active_session, notes, nextToken, noteSeq,
                 statusResult, failStreak, lastReset, issued, keepAttempts>>

\* useNotes validateSession(): the Error it throws for a stored token and the
\* rows its select returns, "" when it returns true.
ValidateSessionError(token, rows, t) ==
  IF token = NoToken THEN "Not authenticated"
  ELSE IF rows = {} THEN "Invalid session"
  ELSE IF \A row \in rows : SessionRowExpired(row, t) THEN "Session expired"
  ELSE ""

\* validate_session, get_notes, create_note, update_note, delete_note:
\* RAISE EXCEPTION 'Invalid or expired session' when is_valid_session_token
\* answers false
NotesRpcError(ok) == IF ok THEN "" ELSE "Invalid or expired session"

\* useNotes: what a page does with the answer of a notes rpc.  An exception
\* 'Invalid or expired session' ends in window.location.reload().
AfterNotesRpc(page, ok, by, t) ==
  IF ok
    THEN [page EXCEPT !.authResult = [token |-> page.sessionToken, ok |-> TRUE, at |-> t,
                                      by |-> by]]
    ELSE [ReloadedPage(page.sessionToken) EXCEPT
            !.authResult = [token |-> page.sessionToken, ok |-> FALSE, at |-> t, by |-> by],
            !.thrown = IF by = "validateSession"
                         THEN ValidateSessionError(page.sessionToken,
                                                   SessionRows(page.sessionToken), t)
                         ELSE NotesRpcError(ok)]

NoteContents == {0, 1}
NoteIds == 1..MaxNotes

\* The payload of a postgres_changes event of the notes table: eventType, and
\* the id and content of payload.new (of payload.old for a DELETE)
ChangeEvent(eventType, row) ==
  [eventType |-> eventType, id |-> row.id, content |-> row.content]

\* The realtime channel 'notes-changes' (the notes table is in the publication
\* supabase_realtime): a change of the table is delivered, in order, to every
\* page whose channel is subscribed.
Broadcast(pages, changes) ==
  [d \in Clients |->
     IF pages[d].channel THEN [pages[d] EXCEPT !.events = @ \o changes] ELSE pages[d]]

\* The events waiting at a subscribed page are at most MaxEvents.
ChannelsHaveRoom ==
  \A d \in Clients : cl[d].channel => Len(cl[d].events) < MaxEvents

\* setNotes((prev) => [data[0], ...prev]) and setNotes((prev) => [...prev,
\* payload.new]): the row joins the list whether or not its id is there
ListInsert(page, row) ==
  [page EXCEPT !.notesList = @ \cup {row},
               !.repeated = IF \E n \in page.notesList : n.id = row.id
                              THEN @ \cup {row.id} ELSE @]

\* prev.map((note) => note.id === payload.new.id ? payload.new : note)
ListReplace(page, row) ==
  [page EXCEPT !.notesList = {IF n.id = row.id THEN row ELSE n : n \in @}]

\* prev.filter((note) => note.id !== payload.old.id)
ListRemove(page, id) ==
  [page EXCEPT !.notesList = {n \in @ : n.id # id}, !.repeated = @ \ {id}]

\* The handler of postgres_changes after "if (!mounted) return": the
\* validateSession() it starts is not awaited, the list is changed at once
ApplyEvent(page, e) ==
  LET row == [id |-> e.id, content |-> e.content] IN
  IF e.eventType = "INSERT" THEN ListInsert(page, row)
  ELSE IF e.eventType = "UPDATE" THEN ListReplace(page, row)
  ELSE ListRemove(page, e.id)

\* useNotes validateSession(), called when the notes are set up and on every
\* realtime event: the select of the session row; a throw ends in a reload
ValidateSession(c) ==
  /\ cl[c].pc = "notes"
  /\ LET ok == ValidateSessionError(cl[c].sessionToken, SessionRows(cl[c].sessionToken),
                                    now) = ""
     IN cl' = [cl EXCEPT ![c] = AfterNotesRpc(@, ok, "validateSession", now)]
  /\ UNCHANGED <<now, lockout, app_password, active_session, notes, nextToken, noteSeq,
                 statusResult, failStreak, lastReset, issued, keepAttempts>>

\* fetchNotes: the rpc get_notes(session_token_param) and setNotes(data)
GetNotes(c) ==
  /\ cl[c].pc = "notes"
  /\ LET ok == SqlValidSession(active_session, cl[c].sessionToken, now)
     IN cl' = [cl EXCEPT ![c] =
          IF ok THEN [AfterNotesRpc(@, ok, "get_notes", now) EXCEPT !.notesList = notes,
                                                                    !.repeated = {}]
                ELSE AfterNotesRpc(@, ok, "get_notes", now)]
  /\ UNCHANGED <<now, lockout, app_password, active_session, notes, nextToken, noteSeq,
                 statusResult, failStreak, lastReset, issued, keepAttempts>>

\* createNote: the rpc create_note(session_token_param, title, content); the
\* returned row is added to the page's list
CreateNote(c) ==
  /\ cl[c].pc = "notes"
  /\ LET ok == SqlValidSession(active_session, cl[c].sessionToken, now)
     IN IF ok
          THEN /\ noteSeq < MaxNotes
               /\ ChannelsHaveRoom
               /\ \E content \in NoteContents :
                    LET row == [id |-> noteSeq + 1, content |-> content] IN
                    /\ notes' = notes \cup {row}
                    /\ cl' = Broadcast(
                         [cl EXCEPT ![c] =
                            ListInsert(AfterNotesRpc(@, ok, "create_note", now), row)],
                         <<ChangeEvent("INSERT", row)>>)
               /\ noteSeq' = noteSeq + 1
          ELSE /\ cl' = [cl EXCEPT ![c] = AfterNotesRpc(@, ok, "create_note", now)]
               /\ UNCHANGED <<notes, noteSeq>>
  /\ UNCHANGED <<now, lockout, app_password, active_session, nextToken, statusResult, failStreak,
                 lastReset, issued, keepAttempts>>

\* updateNote: the rpc update_note(session_token_param, note_id, title, content)
UpdateNote(c) ==
  /\ cl[c].pc = "notes"
  /\ LET ok == SqlValidSession(active_session, cl[c].sessionToken, now)
     IN IF ok
          THEN /\ ChannelsHaveRoom
               /\ \E id \in NoteIds, content \in NoteContents :
                    LET row == [id |-> id, content |-> content] IN
                    /\ notes' = {IF n.id = id THEN row ELSE n : n \in notes}
                    /\ cl' = Broadcast(
                         [cl EXCEPT ![c] = AfterNotesRpc(@, ok, "update_note", now)],
                         IF \E n \in notes : n.id = id
                           THEN <<ChangeEvent("UPDATE", row)>> ELSE <<>>)
          ELSE /\ cl' = [cl EXCEPT ![c] = AfterNotesRpc(@, ok, "update_note", now)]
               /\ UNCHANGED notes
  /\ UNCHANGED <<now, lockout, app_password, active_session, nextToken, noteSeq, statusResult, failStreak, lastReset, issued, keepAttempts>>

\* deleteNote: the rpc delete_note(session_token_param, note_id)
DeleteNote(c) ==
  /\ cl[c].pc = "notes"
  /\ LET ok == SqlValidSession(active_session, cl[c].sessionToken, now)
     IN IF ok
          THEN /\ ChannelsHaveRoom
               /\ \E id \in NoteIds :
                    /\ notes' = {n \in notes : n.id # id}
                    /\ cl' = Broadcast(
                         [cl EXCEPT ![c] = AfterNotesRpc(@, ok, "delete_note", now)],
                         IF \E n \in notes : n.id = id
                           THEN <<ChangeEvent("DELETE", [id |-> id, content |-> 0])>>
                           ELSE <<>>)
          ELSE /\ cl' = [cl EXCEPT ![c] = AfterNotesRpc(@, ok, "delete_note", now)]
               /\ UNCHANGED notes
  /\ UNCHANGED <<now, lockout, app_password, active_session, nextToken, noteSeq, statusResult, failStreak, lastReset, issued, keepAttempts>>

\* setupNotes: "await validateSession()" and "if (!mounted) return"; a throw
\* reaches the catch of setupNotes, which reloads the page while mounted
SetupValidate(c) ==
  /\ cl[c].setup = "validate"
  /\ LET ok == ValidateSessionError(cl[c].sessionToken, SessionRows(cl[c].sessionToken),
                                    now) = ""
     IN cl' = [cl EXCEPT ![c] =
          IF ok THEN [AfterNotesRpc(@, ok, "validateSession", now) EXCEPT !.setup = "fetch"]
                ELSE AfterNotesRpc(@, ok, "validateSession", now)]
  /\ UNCHANGED <<now, lockout, app_password, active_session, notes, nextToken, noteSeq,
                 statusResult, failStreak, lastReset, issued, keepAttempts>>

\* setupNotes: "await fetchNotes()", the rpc get_notes(session_token_param) as
\* the database answers it
FetchNotesRpc(c) ==
  /\ cl[c].setup = "fetch"
  /\ cl[c].fetched.at = NULL
  /\ LET ok == SqlValidSession(active_session, cl[c].sessionToken, now)
     IN cl' = [cl EXCEPT ![c].fetched =
                 [at |-> now, ok |-> ok, data |-> IF ok THEN notes ELSE {},
                  mounted |-> TRUE]]
  /\ UNCHANGED <<now, lockout, app_password, active_session, notes, nextToken, noteSeq,
                 statusResult, failStreak, lastReset, issued, keepAttempts>>

\* A setup that subscribes whether or not its effect is still mounted.
SubscribeAfterFetch_Unguarded(mounted) == TRUE

\* setupNotes after fetchNotes: "if (!mounted) return", then the channel is
\* made and subscribed
SubscribeAfterFetch(mounted) == mounted

\* fetchNotes after its await: setNotes(data || []), or setNotes([]) and a
\* reload on the exception; then setupNotes goes on to subscribe
FetchNotesAnswer(c) ==
  /\ cl[c].fetched.at # NULL
  /\ LET f == cl[c].fetched
     IN cl' = [cl EXCEPT ![c] =
          IF f.ok
            THEN [AfterNotesRpc(@, f.ok, "get_notes", f.at) EXCEPT
                    !.notesList = f.data,
                    !.repeated = {},
                    !.fetched = NoFetch,
                    !.setup = IF f.mounted THEN "done" ELSE @,
                    !.channel = IF SubscribeAfterFetch(f.mounted) THEN TRUE ELSE @]
            ELSE AfterNotesRpc(@, f.ok, "get_notes", f.at)]
  /\ UNCHANGED <<now, lockout, app_password, active_session, notes, nextToken, noteSeq,
                 statusResult, failStreak, lastReset, issued, keepAttempts>>

\* The postgres_changes callback for the first event that waits at the page:
\* it returns at once when the effect is not mounted
RealtimeEvent(c) ==
  /\ cl[c].events # <<>>
  /\ LET e == Head(cl[c].events)
     IN cl' = [cl EXCEPT ![c] =
          IF @.setup = "off" THEN [@ EXCEPT !.events = Tail(@)]
                             ELSE ApplyEvent([@ EXCEPT !.events = Tail(@)], e)]
  /\ UNCHANGED <<now, lockout, app_password, active_session, notes, nextToken, noteSeq,
                 statusResult, failStreak, lastReset, issued, keepAttempts>>

\* The steps of the useNotes effect and of its channel
EffectStep(c) ==
  \/ SetupValidate(c)
  \/ FetchNotesRpc(c)
  \/ FetchNotesAnswer(c)
  \/ RealtimeEvent(c)

\* The steps of useAuth and of the mounting of PicturePasswordAuth
AuthStep(c) ==
  \/ Reload(c)
  \/ PeriodicCheck(c)
  \/ CheckAuthStatus(c)
  \/ InvalidateSession(c)
  \/ CheckPasswordExists(c)

\* The steps of useNotes
NotesStep(c) ==
  \/ ValidateSession(c)
  \/ GetNotes(c)
  \/ CreateNote(c)
  \/ UpdateNote(c)
  \/ DeleteNote(c)

SessionStep(c) == AuthStep(c) \/ NotesStep(c)

\* ------------------------------------------------------------- setup flow

\* JSON.stringify of an array of image ids, as its characters: a digit is
\* itself, "," is 10, "[" is 11 and "]" is 12.
Digits(n) == IF n < 10 THEN <<n>> ELSE <<n \div 10, n % 10>>

RECURSIVE JsonItems(_)
JsonItems(seq) ==
  IF Len(seq) = 0 THEN <<>>
  ELSE IF Len(seq) = 1 THEN Digits(seq[1])
  ELSE Digits(seq[1]) \o <<10>> \o JsonItems(Tail(seq))

JsonStringify(seq) == <<11>> \o JsonItems(seq) \o <<12>>

\* A comparison of the lengths only.
ConfirmMatches_SameLength(updated, chosen) == Len(updated) = Len(chosen)

\* "JSON.stringify(updated) === JSON.stringify(newPassword)"
ConfirmMatches(updated, chosen) == JsonStringify(updated) = JsonStringify(chosen)

\* "newPassword.length >= 3": the 'Continue to Confirm' button is shown
ContinueShown(chosen) == Len(chosen) >= MIN_PASSWORD_LENGTH

\* The sequences a user of the setup screen chooses: runs of consecutive
\* images that start at the first image or run over the last one (ids of two
\* digits), and the same with the first two exchanged.
Run(first, len) == [i \in 1..len |-> ((first + i - 2) % NUM_IMAGES) + 1]

SetupFirstImages == {1, NUM_IMAGES - 2}

SetupTargets ==
  {Run(k, MaxPasswordLength) : k \in SetupFirstImages}
    \cup {SwapFirstTwo(Run(k, MaxPasswordLength)) : k \in SetupFirstImages}

SetupClicks(c) ==
  {i \in PASSWORD_IMAGES :
     \/ Includes(cl[c].newPassword, i)
     \/ \E g \in SetupTargets : IsPrefix(Append(cl[c].newPassword, i), g)}

\* In the 'confirm' step the user clicks the next image of the chosen sequence
\* or, by mistake, its first image.  After a save that failed the page stays in
\* 'confirm' with a full confirmPassword, and further clicks only lengthen it.
ConfirmClicks(c) ==
  IF Len(cl[c].confirmPassword) < Len(cl[c].newPassword)
    THEN {cl[c].newPassword[Len(cl[c].confirmPassword) + 1], cl[c].newPassword[1]}
  ELSE IF Len(cl[c].confirmPassword) <= MaxPasswordLength
    THEN {cl[c].newPassword[1]}
  ELSE {}

\* handleImageClick, step 'set'
SetClick(c) ==
  /\ cl[c].pc = "idle"
  /\ cl[c].step = "set"
  /\ ~cl[c].isLocked
  /\ \E imageId \in SetupClicks(c) :
       IF Includes(cl[c].newPassword, imageId)
         THEN cl' = [cl EXCEPT ![c].error = "Image already selected"]
         ELSE cl' = [cl EXCEPT ![c].error = "",
                               ![c].newPassword = Append(@, imageId)]
  /\ UNCHANGED <<now, lockout, app_password, active_session, notes, nextToken, noteSeq,
                 statusResult, failStreak, lastReset, issued, keepAttempts>>

\* The 'Continue to Confirm' button
ContinueToConfirm(c) ==
  /\ cl[c].pc = "idle"
  /\ cl[c].step = "set"
  /\ ContinueShown(cl[c].newPassword)
  /\ cl' = [cl EXCEPT ![c].step = "confirm"]
  /\ UNCHANGED <<now, lockout, app_password, active_session, notes, nextToken, noteSeq,
                 statusResult, failStreak, lastReset, issued, keepAttempts>>

\* handleImageClick, step 'confirm'
ConfirmClick(c) ==
  /\ cl[c].pc = "idle"
  /\ cl[c].step = "confirm"
  /\ ~cl[c].isLocked
  /\ \E imageId \in ConfirmClicks(c) :
       LET updated == Append(cl[c].confirmPassword, imageId) IN
       cl' = [cl EXCEPT ![c] =
         IF Len(updated) # Len(cl[c].newPassword)
           THEN [@ EXCEPT !.error = "", !.confirmPassword = updated]
         ELSE IF ConfirmMatches(updated, cl[c].newPassword)
           THEN [@ EXCEPT !.error = "", !.confirmPassword = updated, !.pc = "savePassword"]
         ELSE [@ EXCEPT !.error = "Passwords do not match",
                        !.newPassword = <<>>,
                        !.confirmPassword = <<>>,
                        !.step = "set"]]
  /\ UNCHANGED <<now, lockout, app_password, active_session, notes, nextToken, noteSeq,
                 statusResult, failStreak, lastReset, issued, keepAttempts>>

\* savePassword(newPassword): the select of the existing row
SavePasswordSelect(c) ==
  /\ cl[c].pc = "savePassword"
  /\ cl' = [cl EXCEPT ![c].existing = (app_password # <<>>),
                      ![c].pc = "writePassword"]
  /\ UNCHANGED <<now, lockout, app_password, active_session, notes, nextToken, noteSeq,
                 statusResult, failStreak, lastReset, issued, keepAttempts>>

\* savePassword(newPassword): the update of the row, or its insert, which the
\* primary key refuses when the row exists by now
SavePasswordWrite(c) ==
  /\ cl[c].pc = "writePassword"
  /\ IF cl[c].existing \/ app_password = <<>>
       THEN /\ app_password' = cl[c].newPassword
            /\ cl' = [cl EXCEPT ![c].passwordSequence = cl[c].newPassword,
                                ![c].pc = "reset"]
       ELSE /\ UNCHANGED app_password
            /\ cl' = [cl EXCEPT ![c] =
                        [HandlerDone(@) EXCEPT !.error = "Failed to save password"]]
  /\ UNCHANGED <<now, lockout, active_session, notes, nextToken, noteSeq, statusResult,
                 failStreak, lastReset, issued, keepAttempts>>

SetupStep(c) ==
  \/ SetClick(c)
  \/ ContinueToConfirm(c)
  \/ ConfirmClick(c)
  \/ SavePasswordSelect(c)
  \/ SavePasswordWrite(c)

LoginStep(c) ==
  \/ LoginClick(c)
  \/ ValidatePassword(c)
  \/ ResetLockout(c)
  \/ CreateSession(c)
  \/ CleanupSessions(c)
  \/ RecordFailedSelect(c)
  \/ RecordFailedUpdate(c)
  \/ CheckLockoutStatus(c)
  \/ ExpiredReset(c)
  \/ TimerExpired(c)

Next == Tick \/ \E c \in Clients : LoginStep(c)

Spec == Init /\ [][Next]_vars

\* The third failure has just locked the account for one hour: the first page
\* shows the locked screen and is left alone, the others are at the login.
WatchedPage == "c1"

LockedPage ==
  [LoadedPage EXCEPT !.isLocked = TRUE, !.error = "Too many failed attempts"]

InitLocked ==
  /\ now = 0
  /\ lockout = [failed_attempts |-> MAX_ATTEMPTS, lockout_until |-> LOCKOUT_DURATION,
                last_attempt_at |-> 0]
  /\ app_password = InitialPassword
  /\ active_session = {}
  /\ notes = {}
  /\ nextToken = 0
  /\ noteSeq = 0
  /\ cl = [c \in Clients |-> IF c = WatchedPage THEN LockedPage ELSE LoadedPage]
  /\ statusResult = NoStatus
  /\ failStreak = MAX_ATTEMPTS
  /\ lastReset = NoReset
  /\ issued = [t \in Tokens |-> NULL]
  /\ keepAttempts = FALSE

\* What a locked page does without its user: the countdown and the status check
UnlockStep(c) ==
  \/ TimerExpired(c)
  \/ CheckLockoutStatus(c)
  \/ ExpiredReset(c)

NextUnlock ==
  \/ Tick
  \/ UnlockStep(WatchedPage)
  \/ \E c \in Clients \ {WatchedPage} : LoginStep(c)

\* The scheduling of a locked page: its setInterval countdown fires, and the
\* requests checkLockoutStatus awaits are answered.
UnlockFairness ==
  \A c \in Clients :
    /\ WF_vars(TimerExpired(c))
    /\ WF_vars(CheckLockoutStatus(c))
    /\ WF_vars(ExpiredReset(c))

SpecUnlock == InitLocked /\ [][NextUnlock]_vars /\ UnlockFairness

\* Requests that do not overlap: a page takes a step only while the other pages
\* are at rest (between two handlers).
RestPcs == {"idle", "granted", "notes"}

AtRest(c) == cl[c].pc \in RestPcs

Alone(c) == \A d \in Clients \ {c} : AtRest(d)

NextSeq ==
  \/ Tick
  \/ StatusQuery
  \/ \E c \in Clients : Alone(c) /\ LoginClick(c)
  \/ \E c \in Clients : Alone(c) /\ ValidatePassword(c)
  \/ \E c \in Clients : Alone(c) /\ ResetLockout(c)
  \/ \E c \in Clients : Alone(c) /\ CreateSession(c)
  \/ \E c \in Clients : Alone(c) /\ CleanupSessions(c)
  \/ \E c \in Clients : Alone(c) /\ RecordFailedSelect(c)
  \/ \E c \in Clients : Alone(c) /\ RecordFailedUpdate(c)
  \/ \E c \in Clients : Alone(c) /\ CheckLockoutStatus(c)
  \/ \E c \in Clients : Alone(c) /\ ExpiredReset(c)
  \/ \E c \in Clients : Alone(c) /\ TimerExpired(c)

SpecSeq == Init /\ [][NextSeq]_vars

\* The login screen of two pages whose rpc record_failed_attempt can fail;
\* their requests do not overlap.
InitAttempts ==
  /\ now = 0
  /\ lockout = InitialLockout
  /\ app_password = InitialPassword
  /\ active_session = {}
  /\ notes = {}
  /\ nextToken = 0
  /\ noteSeq = 0
  /\ cl = [c \in Clients |-> LoadedPage]
  /\ statusResult = NoStatus
  /\ failStreak = 0
  /\ lastReset = NoReset
  /\ issued = [t \in Tokens |-> NULL]
  /\ keepAttempts = TRUE

NextAttempts ==
  \/ Tick
  \/ \E c \in Clients : Alone(c) /\ LoginStep(c)
  \/ \E c \in Clients : Alone(c) /\ RecordFailedError(c)

SpecAttempts == InitAttempts /\ [][NextAttempts]_vars

\* Two pages that have just logged in, the first at hour 0 and the second one
\* lockout duration later.
GrantedPage(token) ==
  [EffectStart(LoadedPage) EXCEPT !.pc = "granted", !.selectedSequence = InitialPassword,
                                  !.newToken = token, !.sessionToken = token,
                                  !.isAuthenticated = TRUE]

InitSession ==
  /\ now = LOCKOUT_DURATION
  /\ lockout = InitialLockout
  /\ app_password = InitialPassword
  /\ active_session = {[session_token |-> 1, expires_at |-> SESSION_DURATION],
                       [session_token |-> 2,
                        expires_at |-> LOCKOUT_DURATION + SESSION_DURATION]}
  /\ notes = {}
  /\ nextToken = 2
  /\ noteSeq = 0
  /\ cl = [c \in Clients |-> GrantedPage(IF c = "c1" THEN 1 ELSE 2)]
  /\ statusResult = NoStatus
  /\ failStreak = 0
  /\ lastReset = NoReset
  /\ issued = [t \in Tokens |->
                IF t = 1 THEN SESSION_DURATION
                ELSE IF t = 2 THEN LOCKOUT_DURATION + SESSION_DURATION ELSE NULL]
  /\ keepAttempts = FALSE

NextSession == Tick \/ \E c \in Clients : (SessionStep(c) \/ CheckLockoutStatus(c))

SpecSession == InitSession /\ [][NextSession]_vars

\* The same two pages, which check their sessions, read the notes and log out.
LogoutStep(c) ==
  \/ AuthStep(c)
  \/ ValidateSession(c)
  \/ GetNotes(c)
  \/ Logout(c)

NextLogout == Tick \/ \E c \in Clients : LogoutStep(c)

SpecLogout == InitSession /\ [][NextLogout]_vars

\* The scheduling of an authenticated page: the reload timer after a login and
\* the setInterval of the periodic check fire, and the requests that
\* checkAuthStatus awaits are answered.
SessionFairness ==
  \A c \in Clients :
    /\ WF_vars(Reload(c))
    /\ WF_vars(PeriodicCheck(c))
    /\ WF_vars(CheckAuthStatus(c))
    /\ WF_vars(InvalidateSession(c))

SpecExpire == InitSession /\ [][NextLogout]_vars /\ SessionFairness

\* The same two pages with the useNotes effect.  The watched page sets up its
\* notes and its channel, handles the events, writes notes, checks its session
\* and logs out; the other page checks its session and writes notes.
RealtimeStep(c) ==
  \/ AuthStep(c)
  \/ EffectStep(c)
  \/ ValidateSession(c)
  \/ CreateNote(c)
  \/ UpdateNote(c)
  \/ DeleteNote(c)
  \/ Logout(c)

WriterStep(c) ==
  \/ AuthStep(c)
  \/ CreateNote(c)
  \/ UpdateNote(c)
  \/ DeleteNote(c)

NextRealtime ==
  \/ Tick
  \/ RealtimeStep(WatchedPage)
  \/ \E c \in Clients \ {WatchedPage} : WriterStep(c)

SpecRealtime == InitSession /\ [][NextRealtime]_vars

\* The watched page alone: every step of its useAuth and of its useNotes,
\* while the other page stays as it was loaded.
NextCleanup == Tick \/ RealtimeStep(WatchedPage)

SpecCleanup == InitSession /\ [][NextCleanup]_vars

\* Two pages: the first has just logged in and holds the token of a session
\* row; the second shows the notes while its localStorage holds a token for
\* which no row was ever written (useNotes reads the token at every call).
UnknownToken == 2

NotesPage(token) ==
  [ReloadedPage(token) EXCEPT !.isAuthenticated = TRUE, !.pc = "notes"]

InitUnknown ==
  /\ now = LOCKOUT_DURATION
  /\ lockout = InitialLockout
  /\ app_password = InitialPassword
  /\ active_session = {[session_token |-> 1, expires_at |-> SESSION_DURATION]}
  /\ notes = {}
  /\ nextToken = 1
  /\ noteSeq = 0
  /\ cl = [c \in Clients |-> IF c = "c1" THEN GrantedPage(1) ELSE NotesPage(UnknownToken)]
  /\ statusResult = NoStatus
  /\ failStreak = 0
  /\ lastReset = NoReset
  /\ issued = [t \in Tokens |-> IF t = 1 THEN SESSION_DURATION ELSE NULL]
  /\ keepAttempts = FALSE

SpecUnknown == InitUnknown /\ [][NextSession]_vars


\* The first run: no credential is stored and the page shows the 'set' step.
SetupPage == [FreshPage(NoToken) EXCEPT !.step = "set"]

InitSetup ==
  /\ now = 0
  /\ lockout = InitialLockout
  /\ app_password = <<>>
  /\ active_session = {}
  /\ notes = {}
  /\ nextToken = 0
  /\ noteSeq = 0
  /\ cl = [c \in Clients |-> SetupPage]
  /\ statusResult = NoStatus
  /\ failStreak = 0
  /\ lastReset = NoReset
  /\ issued = [t \in Tokens |-> NULL]
  /\ keepAttempts = FALSE

SetupClient == "c1"

NextSetup ==
  \/ Tick
  \/ SetupStep(SetupClient)
  \/ LoginStep(SetupClient)
  \/ AuthStep(SetupClient)

SpecSetup == InitSetup /\ [][NextSetup]_vars

\* The same single page, whose rpc validate_password_with_lockout can fail.
NextGrant == NextSetup \/ ValidatePasswordError(SetupClient)

SpecGrant == InitSetup /\ [][NextGrant]_vars

\* Two pages opened before any credential exists, both in the set-credential
\* flow, whose requests interleave.
SaveStep(c) ==
  \/ SetupStep(c)
  \/ ResetLockout(c)
  \/ CreateSession(c)
  \/ CleanupSessions(c)

NextSave == Tick \/ \E c \in Clients : SaveStep(c)

SpecSave == InitSetup /\ [][NextSave]_vars

\* A credential is stored; the first page is still in the set-credential flow
\* (opened before the credential existed, or after a failed read of it) and the
\* second page is at the login step.  Requests do not overlap.
SetPage == "c1"

InitReplace ==
  /\ now = 0
  /\ lockout = InitialLockout
  /\ app_password = InitialPassword
  /\ active_session = {}
  /\ notes = {}
  /\ nextToken = 0
  /\ noteSeq = 0
  /\ cl = [c \in Clients |-> IF c = SetPage THEN SetupPage ELSE LoadedPage]
  /\ statusResult = NoStatus
  /\ failStreak = 0
  /\ lastReset = NoReset
  /\ issued = [t \in Tokens |-> NULL]
  /\ keepAttempts = FALSE

NextReplace ==
  \/ Tick
  \/ Alone(SetPage) /\ SaveStep(SetPage)
  \/ Alone(SetPage) /\ Reload(SetPage)
  \/ Alone(SetPage) /\ CheckAuthStatus(SetPage)
  \/ Alone(SetPage) /\ InvalidateSession(SetPage)
  \/ \E c \in Clients \ {SetPage} : Alone(c) /\ LoginStep(c)

SpecReplace == InitReplace /\ [][NextReplace]_vars

\* ================================================================ claims

\* A lock is in force: the row carries a deadline that the clock has not reached.
LockInForce == lockout.lockout_until # NULL /\ now < lockout.lockout_until

\* C1: with requests that do not overlap, once three failed attempts have been
\* recorded since the last reset, and for one lockout duration after the third,
\* the row is locked, every login request that gets its answer is answered
\* "locked" and not "valid", the correct sequence included, and no page is on
\* its way to a session token.
C1_LockedAfterThreeFailures ==
  (failStreak = MAX_ATTEMPTS /\ now < lockout.last_attempt_at + LOCKOUT_DURATION) =>
    /\ lockout.lockout_until = lockout.last_attempt_at + LOCKOUT_DURATION
    /\ \A c \in Clients :
         /\ cl[c].pc \in {"reset", "record"} =>
              (cl[c].validation.isLocked /\ ~cl[c].validation.valid)
         /\ cl[c].pc \notin {"reset", "create", "cleanup"}

\* The correct sequence has been submitted after the third failure and has been
\* answered "locked".
C1_Witness ==
  \E c \in Clients :
    /\ failStreak = MAX_ATTEMPTS
    /\ lockout.failed_attempts = MAX_ATTEMPTS
    /\ LockInForce
    /\ cl[c].pc = "record"
    /\ cl[c].selectedSequence = app_password
    /\ cl[c].validation.isLocked
    /\ ~cl[c].validation.valid

\* C2: whenever no record_failed_attempt call is between its SELECT and its
\* UPDATE, the row counts every failure recorded since the last reset (below the
\* threshold), and from the threshold on the row carries a lock deadline.
C2_NoLostFailure ==
  (\A c \in Clients : cl[c].pc # "recordUpdate") =>
    /\ failStreak < MAX_ATTEMPTS => lockout.failed_attempts = failStreak
    /\ failStreak >= MAX_ATTEMPTS => lockout.lockout_until # NULL

\* C3: while a lock is in force no step changes the row's deadline and no step
\* issues a session token.
C3_LockHoldsUntilDeadline ==
  [][LockInForce => (lockout'.lockout_until = lockout.lockout_until /\ issued' = issued)]_vars

\* C4: a record_failed_attempt call that finds the row locked leaves the row as
\* it is and returns the row's count and deadline with is_locked = true.
C4_LockedFailureChangesNothing ==
  [][\A c \in Clients :
       (cl[c].pc = "record" /\ cl'[c].pc # "record" /\ LockInForce) =>
         /\ lockout' = lockout
         /\ cl'[c].lockoutResult =
              [failedAttempts |-> lockout.failed_attempts, isLocked |-> TRUE,
               lockoutUntil |-> lockout.lockout_until]]_vars

\* A failure has been recorded against a locked row: the call returned without
\* reading a row to update, and its answer is the row as it stands.
C4_Witness ==
  \E c \in Clients :
    /\ LockInForce
    /\ lockout.failed_attempts = MAX_ATTEMPTS
    /\ cl[c].pc = "checkLockout"
    /\ cl[c].validation.isLocked
    /\ cl[c].current_record = NoRecord
    /\ cl[c].lockoutResult.isLocked
    /\ cl[c].lockoutResult.failedAttempts = lockout.failed_attempts
    /\ cl[c].lockoutResult.lockoutUntil = lockout.lockout_until

\* C5: when the row still carries a deadline that had passed when a lockout
\* status query or a login request was answered, the answer says "not locked".
C5_ExpiredLockReadsOpen ==
  /\ (statusResult.at # NULL /\ lockout.lockout_until # NULL
        /\ lockout.lockout_until < statusResult.at) => ~statusResult.is_locked
  /\ \A c \in Clients :
       (cl[c].validation.at # NULL /\ lockout.lockout_until # NULL
          /\ lockout.lockout_until < cl[c].validation.at) => ~cl[c].validation.isLocked

\* The deadline has passed, nobody has reset the row, and both the status query
\* and a login request have been answered "not locked".
C5_Witness ==
  /\ lockout.lockout_until # NULL
  /\ lockout.failed_attempts = MAX_ATTEMPTS
  /\ statusResult.at # NULL
  /\ lockout.lockout_until < statusResult.at
  /\ ~statusResult.is_locked
  /\ \E c \in Clients :
       /\ cl[c].validation.at # NULL
       /\ lockout.lockout_until < cl[c].validation.at
       /\ ~cl[c].validation.isLocked

C7_SetThenLoginSucceeds ==
  \A c \in Clients :
    /\ (cl[c].validation.at # NULL /\ cl[c].selectedSequence = app_password
          /\ ~cl[c].validation.isLocked) => cl[c].validation.valid
    /\ (cl[c].authResult.token # NoToken /\ issued[cl[c].authResult.token] # NULL
          /\ cl[c].authResult.at < issued[cl[c].authResult.token]) => cl[c].authResult.ok

\* A sequence of five images has been set, a later login with it has issued the
\* second token, and checkAuthStatus has accepted that token.
C7_Witness ==
  \E c \in Clients :
    /\ Len(app_password) = MAX_PASSWORD_LENGTH
    /\ nextToken = 2
    /\ cl[c].sessionToken = 2
    /\ cl[c].authResult = [token |-> 2, ok |-> TRUE, at |-> now, by |-> "checkAuthStatus"]

\* C8: a login request that submits the images of the stored sequence in
\* another order is never answered "valid".
C8_OrderMatters ==
  \A c \in Clients :
    (/\ cl[c].validation.at # NULL
     /\ cl[c].selectedSequence # app_password
     /\ Len(cl[c].selectedSequence) = Len(app_password)
     /\ {cl[c].selectedSequence[i] : i \in 1..Len(app_password)}
          = {app_password[i] : i \in 1..Len(app_password)})
    => ~cl[c].validation.valid

\* The stored images have been submitted with the first two exchanged, while
\* no lock was in force, and the answer was "not valid".
C8_Witness ==
  \E c \in Clients :
    /\ cl[c].pc = "record"
    /\ Len(app_password) > MIN_PASSWORD_LENGTH
    /\ cl[c].selectedSequence = SwapFirstTwo(app_password)
    /\ ~cl[c].validation.isLocked
    /\ ~cl[c].validation.valid

\* C9: a session check (checkAuthStatus, validateSession) or a notes operation
\* made at or after the expiry a token was issued with is refused, whoever makes
\* it and however often.
C9_ExpiredTokenRefused ==
  \A c \in Clients :
    (/\ cl[c].authResult.token # NoToken
     /\ issued[cl[c].authResult.token] # NULL
     /\ issued[cl[c].authResult.token] <= cl[c].authResult.at)
    => ~cl[c].authResult.ok

\* A notes operation made at the very instant of expiry has been refused, and
\* so has the session check of the other page's expired token.
C9_Witness ==
  \E c, d \in Clients :
    /\ cl[c].authResult.token # NoToken
    /\ cl[c].authResult.by \in {"get_notes", "create_note", "update_note", "delete_note"}
    /\ cl[c].authResult.at = issued[cl[c].authResult.token]
    /\ ~cl[c].authResult.ok
    /\ cl[d].authResult.token # NoToken
    /\ cl[d].authResult.by = "checkAuthStatus"
    /\ cl[d].authResult.at >= issued[cl[d].authResult.token]
    /\ ~cl[d].authResult.ok

\* A sequence set_credential accepts: 3 to 5 images, no image twice.
WellFormedCredential(seq) ==
  /\ Len(seq) \in MIN_PASSWORD_LENGTH..MAX_PASSWORD_LENGTH
  /\ \A i, j \in 1..Len(seq) : i # j => seq[i] # seq[j]

\* C10: the write of savePassword for a sequence that is too short, too long or
\* holds an image twice is refused with an error, and leaves the stored
\* credential and the lockout row as they were.
C10_MalformedCredentialRejected ==
  [][\A c \in Clients :
       (/\ cl[c].pc = "writePassword"
        /\ cl'[c].pc # "writePassword"
        /\ ~WellFormedCredential(cl[c].newPassword))
       => (app_password' = app_password /\ lockout' = lockout /\ cl'[c].error # "")]_vars

\* A token names a live session: a row exists and its expiry is in the future.
SessionLive(token) ==
  \E s \in active_session : s.session_token = token /\ now < s.expires_at

\* C11: a step changes the notes table, or fills a page's list of notes, only
\* for a page whose token names a live session; a notes operation of a page
\* whose token names no live session is refused, leaves the table as it is and
\* leaves the page without notes.
C11_NotesNeedLiveSession ==
  [][/\ notes' # notes =>
          \E c \in Clients : /\ cl[c].pc = "notes"
                             /\ SessionLive(cl[c].sessionToken)
                             /\ \A d \in Clients \ {c} : cl'[d] = cl[d]
     /\ \A c \in Clients :
          (cl'[c].notesList # cl[c].notesList /\ cl'[c].notesList # {})
            => (cl[c].pc = "notes" /\ SessionLive(cl[c].sessionToken))
     /\ \A c \in Clients :
          (cl[c].pc = "notes" /\ cl'[c].authResult # cl[c].authResult
             /\ ~SessionLive(cl[c].sessionToken))
            => (notes' = notes /\ ~cl'[c].authResult.ok /\ cl'[c].notesList = {})]_vars

\* A note exists, a page has listed it, and another page's write with an
\* expired token has been refused.
C11_Witness ==
  \E c, d \in Clients :
    /\ notes # {}
    /\ cl[d].notesList = notes
    /\ cl[d].authResult.ok
    /\ cl[c].authResult.by \in {"create_note", "update_note", "delete_note"}
    /\ cl[c].authResult.token # NoToken
    /\ cl[c].authResult.at >= issued[cl[c].authResult.token]
    /\ ~cl[c].authResult.ok
    /\ cl[c].notesList = {}

\* C12: a login attempt whose lockout check is answered "locked" is not
\* answered "valid", and neither its validation request nor the request that
\* follows it changes the lockout row or the sessions.
C12_LockedAttemptChangesNothing ==
  [][\A c \in Clients :
       /\ (cl[c].pc = "validate" /\ cl'[c].pc # "validate" /\ cl'[c].validation.isLocked)
            => (~cl'[c].validation.valid /\ lockout' = lockout
                  /\ active_session' = active_session)
       /\ (cl[c].pc \in {"record", "recordUpdate"} /\ cl[c].validation.isLocked
             /\ cl'[c] # cl[c])
            => (lockout' = lockout /\ active_session' = active_session)]_vars

\* C13: a step of a login attempt changes the lockout row's count or deadline
\* only when the submitted sequence is well formed (3 to 5 distinct images) and
\* differs from the stored credential.
C13_OnlyWellFormedGuessesCounted ==
  [][\A c \in Clients :
       (cl[c].pc \in {"record", "recordUpdate"} /\ cl'[c] # cl[c] /\ lockout' # lockout)
         => (/\ WellFormedCredential(cl[c].selectedSequence)
             /\ \A i \in 1..Len(cl[c].selectedSequence) :
                  cl[c].selectedSequence[i] \in PASSWORD_IMAGES
             /\ cl[c].selectedSequence # app_password)]_vars

\* C14: a lockout status query that runs while the row's deadline is set and in
\* the past leaves the row reset (failed_attempts = 0, no deadline) and answers
\* "not locked"; this for the rpc check_lockout_status and for the hook
\* checkLockoutStatus, whose reset is its last step.
C14_StatusQueryResetsExpired ==
  [][/\ (statusResult' # statusResult /\ lockout.lockout_until # NULL
           /\ lockout.lockout_until < now)
          => (/\ ~statusResult'.is_locked
              /\ lockout'.failed_attempts = 0
              /\ lockout'.lockout_until = NULL)
     /\ \A c \in Clients :
          (cl[c].pc \in {"checkLockout", "expiredReset"} /\ cl'[c].pc = "idle"
             /\ lockout.lockout_until # NULL /\ lockout.lockout_until < now)
            => (/\ ~cl'[c].isLocked
                /\ lockout'.failed_attempts = 0
                /\ lockout'.lockout_until = NULL)]_vars

\* C15: once a record_failed_attempt call has tripped the lock (the count is at
\* the threshold and the deadline is set and ahead), no step of any
\* record_failed_attempt call, concurrent or later, writes another count or
\* another deadline while that lock is in force.
C15_LockTrippedOncePerEpisode ==
  [][\A c \in Clients :
       (/\ cl[c].pc \in {"record", "recordUpdate"}
        /\ cl'[c] # cl[c]
        /\ LockInForce
        /\ lockout.failed_attempts >= MAX_ATTEMPTS)
         => (/\ lockout'.failed_attempts = lockout.failed_attempts
             /\ lockout'.lockout_until = lockout.lockout_until)]_vars

\* C16: in every state the row carries a deadline exactly when its count stands
\* at the threshold, the deadline is the one set by the failure recorded last,
\* and that deadline is still ahead (a reset clears count and deadline together).
C16_DeadlineIffTrippedAndLive ==
  (lockout.lockout_until # NULL) <=>
    (/\ lockout.failed_attempts = MAX_ATTEMPTS
     /\ lockout.lockout_until = lockout.last_attempt_at + LOCKOUT_DURATION
     /\ now < lockout.lockout_until)

\* C17: no step of a record_failed_attempt call lowers the stored count; the
\* only writes that lower it are the resets.
C17_CountNeverDecreases ==
  [][\A c \in Clients :
       (cl[c].pc \in {"record", "recordUpdate"} /\ cl'[c] # cl[c])
         => lockout'.failed_attempts >= lockout.failed_attempts]_vars

\* C18: with requests that do not overlap, a record_failed_attempt call that
\* found the row not locked writes the count it found plus one, the time of the
\* call as last_attempt_at, and as deadline that time plus one lockout duration
\* when the new count has reached the threshold and no deadline otherwise; the
\* answer the page receives is the row as written: the page is told "locked"
\* exactly when a deadline was written, and then holds the written count and
\* deadline.
C18_RecordedFailureWritesRow ==
  [][\A c \in Clients :
       (cl[c].pc = "recordUpdate" /\ cl'[c].pc # "recordUpdate") =>
         LET t == cl[c].current_record.at
             n == lockout.failed_attempts + 1
             d == IF n >= MAX_ATTEMPTS THEN t + LOCKOUT_DURATION ELSE NULL
         IN /\ lockout' = [failed_attempts |-> n, lockout_until |-> d, last_attempt_at |-> t]
            /\ cl'[c].isLocked = (d # NULL)
            /\ d # NULL => cl'[c].lockoutResult =
                             [failedAttempts |-> lockout'.failed_attempts,
                              isLocked |-> TRUE,
                              lockoutUntil |-> lockout'.lockout_until]]_vars

\* A failure was recorded against an open row and did not trip the lock: the
\* page shows "Incorrect password", the row counts one below the threshold and
\* carries no deadline.
C18_Witness ==
  \E c \in Clients :
    /\ cl[c].pc = "idle"
    /\ cl[c].error = "Incorrect password"
    /\ ~cl[c].isLocked
    /\ lockout.failed_attempts = MAX_ATTEMPTS - 1
    /\ lockout.lockout_until = NULL
    /\ lockout.last_attempt_at = now

\* C19: a login attempt records a failure only after its own validation has
\* been answered, and a step of record_failed_attempt that writes the row
\* belongs to an attempt whose validation answered "not locked" and "not valid".
C19_CheckCompareRecordInOrder ==
  [][\A c \in Clients :
       /\ cl[c].pc \in {"record", "recordUpdate"} => cl[c].validation # NoValidation
       /\ (cl[c].pc \in {"record", "recordUpdate"} /\ cl'[c] # cl[c] /\ lockout' # lockout)
            => (~cl[c].validation.isLocked /\ ~cl[c].validation.valid)]_vars

\* C20: whatever the outcome of the read of the credential store, the page that
\* has run checkPasswordExists shows the login step exactly when a credential
\* with a non-empty sequence is stored, and shows the set-credential step only
\* when none is stored.
C20_SetupFlowIffNoCredential ==
  [][\A c \in Clients :
       (cl[c].pc = "checkPassword" /\ cl'[c].pc # "checkPassword") =>
         /\ (cl'[c].step = "check") <=> (Len(app_password) > 0)
         /\ (cl'[c].step = "set") => (app_password = <<>>)]_vars

\* C21: when the set-credential requests of two pages interleave, every
\* savePassword call that reaches its write succeeds, and the stored sequence is
\* then the whole sequence of that call.
C21_ConcurrentSetLastWriterWins ==
  [][\A c \in Clients :
       (cl[c].pc = "writePassword" /\ cl'[c].pc # "writePassword") =>
         /\ cl'[c].pc = "reset"
         /\ cl'[c].error # "Failed to save password"
         /\ app_password' = cl[c].newPassword]_vars

C23_ExpiredSessionDeletedByValidate ==
  [][\A c \in Clients :
       LET expired == \E s \in active_session :
                        s.session_token = cl[c].sessionToken /\ s.expires_at <= now
           gone == \A s \in active_session' : s.session_token # cl[c].sessionToken
       IN /\ (cl'[c].authResult # cl[c].authResult /\ expired
                /\ cl'[c].authResult.by # "invalidateSession") =>
               /\ ~cl'[c].authResult.ok
               /\ cl'[c].pc # "invalidate" => gone
          /\ (cl[c].pc = "invalidate" /\ cl'[c].pc # "invalidate") => gone]_vars

\* C24: no step of a session check made with the token of a live session
\* changes active_session; a row keeps the expires_at it was created with, and
\* a row is created with expires_at one session duration after the time of its
\* creation, whatever checks and logins follow.
C24_NoSlidingExpiry ==
  [][/\ \A c \in Clients :
          (cl[c].pc \in {"checkAuth", "invalidate"} /\ cl'[c] # cl[c]
             /\ SessionLive(cl[c].sessionToken))
            => active_session' = active_session
     /\ \A s \in active_session' :
          /\ s.expires_at = issued'[s.session_token]
          /\ \A r \in active_session :
               r.session_token = s.session_token => r.expires_at = s.expires_at
          /\ (\A r \in active_session : r.session_token # s.session_token)
               => s.expires_at = now + SESSION_DURATION]_vars

\* A second login has created a second session, and after it a check of the
\* first token, made later than that token's creation, has accepted it.
C24_Witness ==
  \E c \in Clients :
    /\ Cardinality(active_session) = 2
    /\ cl[c].authResult.by = "checkAuthStatus"
    /\ cl[c].authResult.ok
    /\ cl[c].authResult.token = 1
    /\ cl[c].authResult.at > issued[1] - SESSION_DURATION
    /\ issued[2] # NULL
    /\ issued[2] <= cl[c].authResult.at + SESSION_DURATION

\* C25: when invalidateSession(token) has ended, no row of the token is in
\* active_session and the calling page is not authenticated; a call for a token
\* without row leaves active_session as it is; a token without row never gets
\* one again, and every session check of a token without row is refused.
C25_LogoutRevokes ==
  [][/\ \A c \in Clients :
          (cl'[c].authResult # cl[c].authResult
             /\ cl'[c].authResult.by = "invalidateSession") =>
            LET token == cl'[c].authResult.token IN
            /\ \A s \in active_session' : s.session_token # token
            /\ ~cl'[c].isAuthenticated
            /\ cl'[c].sessionToken = NoToken
            /\ (\A s \in active_session : s.session_token # token)
                 => active_session' = active_session
     /\ \A c \in Clients :
          (cl[c].pc = "invalidate" /\ cl'[c].pc # "invalidate") =>
            /\ \A s \in active_session' : s.session_token # cl[c].sessionToken
            /\ ~cl'[c].isAuthenticated
     /\ \A t \in Tokens :
          (issued[t] # NULL /\ \A s \in active_session : s.session_token # t)
            => \A s \in active_session' : s.session_token # t
     /\ \A c \in Clients :
          (cl'[c].authResult # cl[c].authResult
             /\ \A s \in active_session : s.session_token # cl[c].sessionToken)
            => ~cl'[c].authResult.ok]_vars

\* A token was revoked while its session was live, and a later session check
\* of the page that held it, made before the token's expiry, was refused.
C25_Witness ==
  \E c, d \in Clients :
    /\ c # d
    /\ cl[d].authResult.by = "invalidateSession"
    /\ cl[d].authResult.token # NoToken
    /\ cl[c].authResult.token = cl[d].authResult.token
    /\ cl[c].authResult.by \in {"checkAuthStatus", "validateSession", "get_notes"}
    /\ ~cl[c].authResult.ok
    /\ cl[c].authResult.at >= cl[d].authResult.at
    /\ cl[c].authResult.at < issued[cl[c].authResult.token]

\* C26: the rpc cleanup_expired_sessions leaves in active_session exactly the
\* rows with expires_at > now: a row whose expires_at equals now is deleted,
\* whatever the other page is doing.
C26_PurgeDeletesExpired ==
  [][\A c \in Clients :
       (cl[c].pc = "cleanup" /\ cl'[c].pc # "cleanup") =>
         active_session' = {s \in active_session : s.expires_at > now}]_vars

\* C27: in every state no two rows of active_session carry the same token,
\* expired rows included.
C27_TokensUnique ==
  \A s, r \in active_session : s.session_token = r.session_token => s = r

\* A createSession drew the token of a row that had expired and was not yet
\* purged, and was refused.
C27_Witness ==
  \E c \in Clients :
    /\ cl[c].error = "Failed to create session"
    /\ active_session # {}
    /\ \A s \in active_session : s.expires_at <= now

\* C28: a session check refuses a token that never existed and a token whose
\* session has expired with the same result and the same error value: when the
\* same check has refused the one on one page and the other on another page,
\* the two pages got the same answer and the same error.
C28_UnknownAndExpiredAlike ==
  \A c, d \in Clients :
    (/\ cl[c].authResult.by = cl[d].authResult.by
     /\ cl[c].authResult.token # NoToken
     /\ issued[cl[c].authResult.token] = NULL
     /\ cl[d].authResult.token # NoToken
     /\ issued[cl[d].authResult.token] # NULL
     /\ issued[cl[d].authResult.token] <= cl[d].authResult.at)
    => /\ cl[c].authResult.ok = cl[d].authResult.ok
       /\ cl[c].thrown = cl[d].thrown

\* C29: the attempts-remaining value a page shows after a failed login is
\* MAX_ATTEMPTS less the failed_attempts the failure-recording step returned,
\* floored at 0, and never negative, whether the step answered or failed.
C29_RemainingNeverNegative ==
  [][\A c \in Clients :
       (cl[c].pc \in {"record", "recordUpdate"} /\ cl'[c].pc \notin {"record", "recordUpdate"})
         => \A shown \in cl'[c].remaining :
              /\ shown >= 0
              /\ shown = IF cl'[c].failedAttempts <= MAX_ATTEMPTS
                          THEN MAX_ATTEMPTS - cl'[c].failedAttempts ELSE 0]_vars

\* A page shows "1 attempt remaining" after a recorded failure, and the other
\* page, whose rpc failed, shows the 3 of its own count of 0.
C29_Witness ==
  \E c, d \in Clients :
    /\ cl[c].error = "Incorrect password"
    /\ cl[c].remaining = {1}
    /\ cl[c].failedAttempts = 2
    /\ lockout.failed_attempts = 2
    /\ cl[d].error = "Incorrect password"
    /\ cl[d].remaining = {MAX_ATTEMPTS}
    /\ cl[d].failedAttempts = 0

\* C30: a page that shows the locked screen unlocks by itself: whenever its
\* isLocked is true and the lock of the server is no longer in force, its
\* isLocked becomes false (unless the server is locked again before that), by
\* its countdown and its status check alone.
C30_LockedPageUnlocks ==
  \A c \in Clients :
    (cl[c].isLocked /\ ~LockInForce) ~> (~cl[c].isLocked \/ LockInForce)

\* A page that was locked has reset the expired lock and shows the grid again.
C30_Witness ==
  \E c \in Clients :
    /\ cl[c].pc = "idle"
    /\ ~cl[c].isLocked
    /\ cl[c].error = "Too many failed attempts"
    /\ lastReset.by = c
    /\ lastReset.from >= MAX_ATTEMPTS
    /\ lockout.failed_attempts = 0
    /\ now >= LOCKOUT_DURATION

\* C31: the reset that the status read path writes for an expired lock never
\* clears a lock whose deadline is in the future: when the page that read the
\* expired row writes its reset, no lock is in force.
C31_StaleResetSparesFreshLock ==
  [][\A c \in Clients :
       (cl[c].pc = "expiredReset" /\ cl'[c].pc # "expiredReset") => ~LockInForce]_vars

\* C32: a lock whose deadline has passed counts as no lock: the first failed
\* attempt recorded on a row whose deadline has passed, reset or not, does not
\* trip the lock again.
C32_ExpiredLockIsOpen ==
  [][\A c \in Clients :
       (/\ cl[c].pc = "recordUpdate"
        /\ cl'[c].pc # "recordUpdate"
        /\ lockout.lockout_until # NULL
        /\ lockout.lockout_until <= now)
       => lockout'.lockout_until = NULL]_vars

\* C33: the stored failed_attempts is always between 0 and the threshold
\* MAX_ATTEMPTS.
C33_CountWithinThreshold == lockout.failed_attempts \in 0..MAX_ATTEMPTS

\* C34: a session row is written only by a page whose handler has just got a
\* valid, unlocked validation of its sequence, or has just saved the credential
\* it confirmed; no other path of the handler reaches createSession.
C34_SessionOnlyAfterSuccess ==
  [][\A c \in Clients :
       (cl[c].pc = "create" /\ cl'[c].pc # "create" /\ active_session' # active_session)
       => \/ /\ cl[c].step = "check"
             /\ cl[c].validation.valid
             /\ ~cl[c].validation.isLocked
          \/ /\ cl[c].step = "confirm"
             /\ cl[c].confirmPassword = cl[c].newPassword
             /\ cl[c].passwordSequence = cl[c].newPassword
             /\ cl[c].error # "Failed to save password"]_vars

\* The setup flow has made a first session; the page now makes a second one by
\* a login whose validation was valid, after a failure had been recorded.
C34_Witness ==
  /\ issued[1] # NULL
  /\ \E s \in active_session : s.session_token = 2
  /\ lockout.failed_attempts = 0
  /\ lastReset.from > 0
  /\ cl[SetupClient].step = "check"
  /\ cl[SetupClient].validation.valid
  /\ cl[SetupClient].selectedSequence = app_password
  /\ cl[SetupClient].pc = "cleanup"

\* C35: in the setup flow the credential is written only with a chosen
\* sequence whose confirmation equals it element by element; the click that
\* completes a different confirmation writes nothing, clears both sequences
\* and shows the 'set' step again.
C35_SavedOnlyWhenConfirmed ==
  [][/\ app_password' # app_password =>
          \E c \in Clients :
            /\ cl[c].pc = "writePassword"
            /\ app_password' = cl[c].newPassword
            /\ Len(cl[c].confirmPassword) = Len(cl[c].newPassword)
            /\ \A i \in 1..Len(cl[c].newPassword) :
                 cl[c].confirmPassword[i] = cl[c].newPassword[i]
     /\ \A c \in Clients :
          (/\ cl[c].step = "confirm"
           /\ cl[c].pc = "idle"
           /\ Len(cl[c].confirmPassword) + 1 = Len(cl[c].newPassword)
           /\ cl'[c] # cl[c]
           /\ cl'[c].pc = "idle")
          => /\ app_password' = app_password
             /\ cl'[c].newPassword = <<>>
             /\ cl'[c].confirmPassword = <<>>
             /\ cl'[c].step = "set"]_vars

\* A confirmation that differed has just sent the page back to the 'set' step,
\* and no credential is stored.
C35_Witness ==
  \E c \in Clients :
    /\ cl[c].error = "Passwords do not match"
    /\ cl[c].step = "set"
    /\ cl[c].newPassword = <<>>
    /\ cl[c].confirmPassword = <<>>
    /\ app_password = <<>>

\* C36: an authenticated page whose session has expired or has been deleted
\* at the server becomes unauthenticated by itself: its isAuthenticated becomes
\* false and its stored token is removed.
C36_DeadSessionSignsOut ==
  \A c \in Clients :
    (cl[c].isAuthenticated /\ cl[c].sessionToken # NoToken
       /\ ~SessionLive(cl[c].sessionToken))
    ~> (~cl[c].isAuthenticated /\ cl[c].sessionToken = NoToken)

\* A page whose session row was deleted before its expiry has been signed out
\* by its own checkAuthStatus.
C36_Witness ==
  \E c \in Clients :
    /\ cl[c].authResult.by = "checkAuthStatus"
    /\ ~cl[c].authResult.ok
    /\ cl[c].authResult.token # NoToken
    /\ cl[c].authResult.at < issued[cl[c].authResult.token]
    /\ ~cl[c].isAuthenticated
    /\ cl[c].sessionToken = NoToken

\* C37: a change event that the handler of a page's channel takes changes the
\* page's list of notes only when the page's token names a live session at
\* that moment; an event taken after the session has expired or has been
\* deleted leaves the list as it is.
C37_EventsNeedLiveSession ==
  [][\A c \in Clients :
       (/\ cl[c].events # <<>>
        /\ cl'[c].events = Tail(cl[c].events)
        /\ cl'[c].channel
        /\ cl'[c].notesList # cl[c].notesList)
         => SessionLive(cl[c].sessionToken)]_vars

\* C38: while a page is not authenticated its list of notes is empty: neither
\* the answer of a fetch that an earlier authenticated period sent nor a
\* change event fills it.
C38_SignedOutListEmpty ==
  \A c \in Clients : ~cl[c].isAuthenticated => cl[c].notesList = {}

\* C39: in every reachable state no page's list of notes holds a note id more
\* than once, in whatever order createNote's own insertion and the INSERT,
\* UPDATE and DELETE events of the same notes reach the list.
C39_NoteIdsUnique ==
  \A c \in Clients : cl[c].repeated = {}

\* C40: once the useNotes effect of a page has been cleaned up (the page is no
\* longer authenticated) the page has no subscribed channel and no event
\* waits for it, whether the cleanup came while setupNotes awaited the
\* session validation, while it awaited the fetch, or after it had subscribed.
C40_NoChannelAfterCleanup ==
  \A c \in Clients :
    ~cl[c].isAuthenticated => (~cl[c].channel /\ cl[c].events = <<>>)

\* The effect of a page was cleaned up while its fetch was in flight: the
\* answer has arrived since and has filled the list, and setupNotes did not
\* subscribe.
C40_Witness ==
  \E c \in Clients :
    /\ ~cl[c].isAuthenticated
    /\ cl[c].notesList # {}
    /\ cl[c].fetched = NoFetch
    /\ cl[c].authResult.by = "get_notes"
    /\ ~cl[c].channel

====
